---- MODULE Spec2Model ----
(***************************************************************************)
(* Model of the rustCad library (src/src/lib.rs) and of its demo driver    *)
(* (src/src/main.rs): the sdbm fingerprints of shader sources, the         *)
(* ShaderProgram build pipeline with its fingerprint/handle lookup list,   *)
(* and the event/render loop with its vertex and index buffers.            *)
(*                                                                         *)
(* Three specifications share the variables below:                         *)
(*   SpecHash  - Hashable::hash and Hashable::hashShader on bounded texts  *)
(*   SpecBuild - ShaderProgram::from_vert_frag, attach_shader, get_shader  *)
(*   SpecFrame - main(): initialisation and the frame loop                 *)
(*                                                                         *)
(* A text (Rust &str) is a sequence of Unicode scalar values.  A u32 is a  *)
(* pair <<hi, lo>> of 16-bit halves, so that the wrapping arithmetic of    *)
(* the source is computed exactly without leaving TLC's integer range.     *)
(***************************************************************************)
EXTENDS Integers, Sequences, FiniteSets, TLC

VARIABLES
    \* ---- SpecHash
    hin,        \* the texts under test: [p, s1, s2]
    hout,       \* the fingerprints computed so far: [full, st1, st2]
    \* ---- SpecBuild
    pc,         \* position of the caller of the ShaderProgram API
    vert,       \* vertex source text handed to the API
    frag,       \* fragment source text handed to the API
    gl,         \* the device's shader/program objects
    calls,      \* device calls issued so far, in order
    p,          \* the ShaderProgram value held by the caller: [h, l] or NoProg
    v,          \* handle of the vertex Shader held (0: none)
    f,          \* handle of the fragment Shader held (0: none)
    result,     \* what from_vert_frag returned
    got,        \* what the last get_shader returned
    \* ---- SpecFrame
    fpc,        \* frame driver state
    dev,        \* the device's buffer, vertex array and raster state
    app,        \* main()'s locals
    hist        \* history of the frame loop (counters, last draw)

hashVars  == <<hin, hout>>
buildVars == <<pc, vert, frag, gl, calls, p, v, f, result, got>>
frameVars == <<fpc, dev, app, hist>>
vars == <<hin, hout, pc, vert, frag, gl, calls, p, v, f, result, got,
          fpc, dev, app, hist>>

NoVal == <<>>

(***************************************************************************)
(* u32 arithmetic on <<hi, lo>> halves                                     *)
(***************************************************************************)
Half == 65536

U32(n) == <<n \div Half, n % Half>>

\* u32::wrapping_add
WrappingAdd(a, b) ==
    LET lo == a[2] + b[2]
    IN  <<(a[1] + b[1] + lo \div Half) % Half, lo % Half>>

\* u32::wrapping_sub
WrappingSub(a, b) ==
    LET lo == a[2] - b[2]
        borrow == IF lo < 0 THEN 1 ELSE 0
    IN  <<(a[1] - b[1] - borrow + Half) % Half, (lo + Half) % Half>>

\* hash << 6 on u32: the bits shifted out at the top are dropped
Shl6(a) ==
    LET lo == a[2] * 64
    IN  <<(a[1] * 64 + lo \div Half) % Half, lo % Half>>

\* hash << 16 on u32
Shl16(a) == <<a[2], 0>>

(***************************************************************************)
(* str::encode_utf16: one code unit for a scalar of the basic plane, a     *)
(* surrogate pair for a scalar above it                                    *)
(***************************************************************************)
RECURSIVE EncodeUtf16(_)
EncodeUtf16(text) ==
    IF text = <<>> THEN <<>>
    ELSE LET c == Head(text)
         IN  (IF c < Half
              THEN <<c>>
              ELSE <<55296 + ((c - Half) \div 1024), 56320 + ((c - Half) % 1024)>>)
             \o EncodeUtf16(Tail(text))

\* one round of the loop body of hash / hashShader
SdbmStep(c, h) ==
    WrappingSub(WrappingAdd(WrappingAdd(U32(c), Shl6(h)), Shl16(h)), h)

RECURSIVE HashFold(_, _)
HashFold(units, h) ==
    IF units = <<>> THEN h
    ELSE HashFold(Tail(units), SdbmStep(Head(units), h))

\* Hashable::hash
hash(text) == HashFold(EncodeUtf16(text), U32(0))

\* the code unit at which hashShader stops ('#')
StopUnit == 35

\* hashShader's loop with the '#' unit skipped instead of ending the loop
RECURSIVE HashShaderFoldNoBreak(_, _)
HashShaderFoldNoBreak(units, h) ==
    IF units = <<>> THEN h
    ELSE IF Head(units) = StopUnit THEN HashShaderFoldNoBreak(Tail(units), h)
    ELSE HashShaderFoldNoBreak(Tail(units), SdbmStep(Head(units), h))

RECURSIVE HashShaderFold(_, _)
HashShaderFold(units, h) ==
    IF units = <<>> THEN h
    ELSE IF Head(units) = StopUnit THEN h
    ELSE HashShaderFold(Tail(units), SdbmStep(Head(units), h))

hashShaderNoBreak(text) == HashShaderFoldNoBreak(EncodeUtf16(text), U32(0))

\* Hashable::hashShader
hashShader(text) == HashShaderFold(EncodeUtf16(text), U32(0))

(***************************************************************************)
(* SpecHash: the two fingerprints applied to bounded texts                 *)
(***************************************************************************)
MaxPrefixLen == 2
MaxSuffixLen == 1

\* scalars the texts are drawn from: two control characters (their
\* fingerprints are small numbers), '#', 'a', and a scalar above the basic
\* plane (two code units)
Scalars == {2, 3, 35, 97, 128512}

RECURSIVE TextsUpTo(_, _)
TextsUpTo(alphabet, n) ==
    IF n = 0 THEN {<<>>}
    ELSE LET shorter == TextsUpTo(alphabet, n - 1)
         IN  shorter \cup {<<c>> \o t : c \in alphabet, t \in {s \in shorter : Len(s) = n - 1}}

\* scalars of the suffixes: '#' again, 'a', and the scalar of two code units
SuffixScalars == {35, 97, 128512}

PrefixTexts == TextsUpTo(Scalars \ {StopUnit}, MaxPrefixLen)
SuffixTexts == TextsUpTo(SuffixScalars, MaxSuffixLen)

(***************************************************************************)
(* The device's shader and program objects (the part of the graphics API   *)
(* that lib.rs calls).  Shader and program names share one name space; 0   *)
(* is the "no object" value.                                               *)
(***************************************************************************)
MaxName == 3

Names == 1..MaxName

\* device diagnostics: sequences of characters
Logs == {<<>>, <<"e">>, <<"e", "r">>}

NoProg == [h |-> 0, l |-> <<>>]

GlInit ==
    [live    |-> {},                          \* objects not yet reclaimed
     kind    |-> [n \in Names |-> "none"],    \* "Vertex", "Fragment", "Program"
     status  |-> [n \in Names |-> FALSE],     \* compile / link status
     log     |-> [n \in Names |-> <<>>],      \* info log
     att     |-> {},                          \* <<program, shader>> attachments
     flagged |-> {}]                          \* deleted while still attached

\* names the device may hand out: any name of no live object
FreeNames(g) == Names \ g.live

Call(fn, ty, name, ret) == [fn |-> fn, ty |-> ty, name |-> name, ret |-> ret]

\* glCreateShader / glCreateProgram returning name (name # 0)
GlCreate(g, kind, name) ==
    [g EXCEPT !.live = @ \cup {name}, !.kind[name] = kind,
              !.status[name] = FALSE, !.log[name] = <<>>]

\* glCompileShader: the device decides the outcome and writes its log
GlCompileShader(g, name, ok, lg) ==
    [g EXCEPT !.status[name] = ok, !.log[name] = lg]

\* glDeleteShader: reclaimed at once unless attached, then only flagged
GlDeleteShader(g, name) ==
    IF \E pr \in Names : <<pr, name>> \in g.att
    THEN [g EXCEPT !.flagged = @ \cup {name}]
    ELSE [g EXCEPT !.live = @ \ {name}, !.kind[name] = "none"]

\* glAttachShader
GlAttachShader(g, prog, sh) == [g EXCEPT !.att = @ \cup {<<prog, sh>>}]

\* glLinkProgram: the device decides the outcome and writes the program's log
GlLinkProgram(g, prog, ok, lg) ==
    [g EXCEPT !.status[prog] = ok, !.log[prog] = lg]

\* glDeleteProgram of a program that is not in use: the program is reclaimed,
\* its shaders are detached, and the flagged ones among them are reclaimed
GlDeleteProgram(g, prog) ==
    LET freed == {s \in g.flagged : <<prog, s>> \in g.att}
        gone  == {prog} \cup freed
    IN  [g EXCEPT !.live = @ \ gone,
                  !.kind = [n \in Names |-> IF n \in gone THEN "none" ELSE @[n]],
                  !.att = {a \in @ : a[1] # prog},
                  !.flagged = @ \ freed]

IsShader(g, name) == name \in g.live /\ g.kind[name] \in {"Vertex", "Fragment"}

\* glGetShaderiv(name, GL_INFO_LOG_LENGTH, &mut needed_len) with needed_len = 0
\* before the call: the log's length with its terminator, 0 for an empty
\* log; on a name that is no shader object the call is an error and leaves
\* needed_len as it was
GlGetShaderInfoLogLength(g, name) ==
    IF IsShader(g, name)
    THEN (IF g.log[name] = <<>> THEN 0 ELSE Len(g.log[name]) + 1)
    ELSE 0

\* glGetShaderInfoLog(name, bufSize, &mut len_written, buf) with
\* len_written = 0 before the call: the characters written, at most
\* bufSize - 1 of them; on a name that is no shader object the call is an
\* error and writes nothing
GlGetShaderInfoLog(g, name, bufSize) ==
    IF IsShader(g, name) /\ bufSize > 0
    THEN SubSeq(g.log[name], 1,
                IF Len(g.log[name]) < bufSize - 1 THEN Len(g.log[name]) ELSE bufSize - 1)
    ELSE <<>>

\* Shader::info_log
ShaderInfoLog(g, name) ==
    LET needed_len == GlGetShaderInfoLogLength(g, name)
    IN  GlGetShaderInfoLog(g, name, needed_len)

\* ShaderProgram::info_log: the same two shader queries, on the program's name
ProgramInfoLog(g, name) ==
    LET needed_len == GlGetShaderInfoLogLength(g, name)
    IN  GlGetShaderInfoLog(g, name, needed_len)

Ok(h)   == [ok |-> TRUE, h |-> h, msg |-> <<>>]
Err(m)  == [ok |-> FALSE, h |-> 0, msg |-> m]
NoResult == [ok |-> FALSE, h |-> 0, msg |-> <<"-">>]

\* Shader::from_source(ty, source) against device state g with call log cs.
\* name is what glCreateShader returns (0: allocation failed); ok and lg are
\* the outcome of the compilation.  Yields the device state, the call log
\* and the Result.
ShaderFromSource(g, cs, ty, source, name, ok, lg) ==
    IF name = 0
    THEN [gl |-> g,
          calls |-> Append(cs, Call("glCreateShader", ty, 0, 0)),
          res |-> Err(<<"Could not allocate new shader">>)]
    ELSE LET g1 == GlCreate(g, ty, name)
             g2 == GlCompileShader(g1, name, ok, lg)
             c2 == cs \o <<Call("glCreateShader", ty, 0, name),
                           Call("glShaderSource", ty, name, 0),
                           Call("glCompileShader", ty, name, 0),
                           Call("glGetShaderiv(GL_COMPILE_STATUS)", ty, name,
                                IF g2.status[name] THEN 1 ELSE 0)>>
         IN  IF g2.status[name]
             THEN [gl |-> g2, calls |-> c2, res |-> Ok(name)]
             ELSE [gl |-> GlDeleteShader(g2, name),
                   calls |-> c2 \o <<Call("glGetShaderiv(GL_INFO_LOG_LENGTH)", ty, name,
                                          GlGetShaderInfoLogLength(g2, name)),
                                     Call("glGetShaderInfoLog", ty, name,
                                          Len(ShaderInfoLog(g2, name))),
                                     Call("glDeleteShader", ty, name, 0)>>,
                   res |-> Err(ShaderInfoLog(g2, name))]

(***************************************************************************)
(* ShaderProgram                                                           *)
(***************************************************************************)
\* ShaderProgram::new against device state g; name is what glCreateProgram
\* returns (0: allocation failed)
ProgramNew(g, cs, name) ==
    [gl |-> IF name = 0 THEN g ELSE GlCreate(g, "Program", name),
     calls |-> Append(cs, Call("glCreateProgram", "Program", 0, name)),
     p |-> IF name = 0 THEN NoProg ELSE [h |-> name, l |-> <<>>]]

\* the message of a failed program allocation
ProgramAllocErr == <<"Could not allocate a program">>

\* map_err of the fragment stage
FragmentErr(e) == <<"Fragment Compile Error: ">> \o e

\* the vertex stage's message, tagged with the other stage's prefix
VertexErrWrongStage(e) == <<"Fragment Compile Error: ">> \o e

\* map_err of the vertex stage
VertexErr(e) == <<"Vertex Compile Error: ">> \o e

\* the link stage's message
LinkErr(e) == <<"Program Link Error: ">> \o e

\* ShaderProgram::attach_shader: the device call, nothing else
AttachShader(g, cs, prog, sh) ==
    [gl |-> GlAttachShader(g, prog.h, sh),
     calls |-> Append(cs, Call("glAttachShader", g.kind[sh], sh, prog.h))]

\* the value get_shader's position() search falls back to (usize::MAX: no
\* index of a Vec<u32> can equal it)
UsizeMax == -1

\* iter().position(|&x| x == key): 0-based index of the first equal element
Position(l, key) ==
    IF \E i \in 1..Len(l) : l[i] = key
    THEN (CHOOSE i \in 1..Len(l) : l[i] = key /\ \A j \in 1..(i - 1) : l[j] # key) - 1
    ELSE UsizeMax

\* ShaderProgram::get_shader: "Some" with the element after the first match,
\* "None", or "Panic" when that element is past the end of the list
get_shader(prog, shader) ==
    LET index == Position(prog.l, hash(shader))
    IN  IF index # UsizeMax
        THEN (IF index + 2 <= Len(prog.l)
              THEN [q |-> shader, kind |-> "Some", h |-> prog.l[index + 2]]
              ELSE [q |-> shader, kind |-> "Panic", h |-> U32(0)])
        ELSE [q |-> shader, kind |-> "None", h |-> U32(0)]

NoGot == [q |-> <<>>, kind |-> "-", h |-> U32(0)]

\* from_vert_frag after both shaders compiled (lines 264-285): attach and
\* record the vertex shader, attach and record the fragment shader, link,
\* delete both shaders, and return the program or the link error.  ok and lg
\* are the outcome of the link.
AttachAndLink(g, cs, prog, vh, fh, vtext, ftext, ok, lg) ==
    LET a1 == AttachShader(g, cs, prog, vh)
        l1 == prog.l \o <<hash(vtext), U32(vh)>>
        a2 == AttachShader(a1.gl, a1.calls, prog, fh)
        l2 == l1 \o <<hash(ftext), U32(fh)>>
        g3 == GlLinkProgram(a2.gl, prog.h, ok, lg)
        g4 == GlDeleteShader(g3, vh)
        g5 == GlDeleteShader(g4, fh)
        c5 == a2.calls \o <<Call("glLinkProgram", "Program", prog.h, 0),
                            Call("glDeleteShader", "Vertex", vh, 0),
                            Call("glDeleteShader", "Fragment", fh, 0),
                            Call("glGetProgramiv(GL_LINK_STATUS)", "Program", prog.h,
                                 IF g3.status[prog.h] THEN 1 ELSE 0)>>
    IN  IF g5.status[prog.h]
        THEN [gl |-> g5, calls |-> c5, p |-> [h |-> prog.h, l |-> l2], res |-> Ok(prog.h)]
        ELSE [gl |-> GlDeleteProgram(g5, prog.h),
              calls |-> c5 \o <<Call("glGetShaderiv(GL_INFO_LOG_LENGTH)", "Program", prog.h,
                                     GlGetShaderInfoLogLength(g5, prog.h)),
                                Call("glGetShaderInfoLog", "Program", prog.h,
                                     Len(ProgramInfoLog(g5, prog.h))),
                                Call("glDeleteProgram", "Program", prog.h, 0)>>,
              p |-> NoProg,
              res |-> Err(LinkErr(ProgramInfoLog(g5, prog.h)))]

(***************************************************************************)
(* SpecBuild: a caller of the ShaderProgram API.  Either it calls          *)
(* from_vert_frag(vert, frag), modelled stage by stage, or it uses the     *)
(* public pieces itself: new, Shader::from_source, attach_shader.  On the  *)
(* program it then holds it calls get_shader.                              *)
(***************************************************************************)
MaxSrcLen == 1

SrcScalars == {2, 3, 97}

SourceTexts == TextsUpTo(SrcScalars, MaxSrcLen)

\* what a compilation or a link can come to: success, or failure with a log
Outcomes == {[ok |-> TRUE, lg |-> <<>>]} \cup {[ok |-> FALSE, lg |-> lg] : lg \in Logs}

HashOff == hin = NoVal /\ hout = NoVal

FrameOff == fpc = "off" /\ dev = NoVal /\ app = NoVal /\ hist = NoVal

BuildOff ==
    /\ pc = "off" /\ vert = <<>> /\ frag = <<>> /\ gl = NoVal /\ calls = <<>>
    /\ p = NoProg /\ v = 0 /\ f = 0 /\ result = NoResult /\ got = NoGot

InitBuild ==
    /\ pc = "start"
    /\ vert \in SourceTexts
    /\ frag \in SourceTexts
    /\ gl = GlInit
    /\ calls = <<>>
    /\ p = NoProg /\ v = 0 /\ f = 0
    /\ result = NoResult
    /\ got = NoGot
    /\ HashOff /\ FrameOff

\* from_vert_frag, line 258
FvfNew ==
    /\ pc = "start"
    /\ \E name \in FreeNames(gl) \cup {0} :
          LET r == ProgramNew(gl, calls, name)
          IN  /\ gl' = r.gl
              /\ calls' = r.calls
              /\ p' = r.p
              /\ IF name = 0
                 THEN result' = Err(ProgramAllocErr) /\ pc' = "returned"
                 ELSE result' = result /\ pc' = "fvf_vert"
    /\ UNCHANGED <<vert, frag, v, f, got, hashVars, frameVars>>

\* from_vert_frag, lines 259-260
FvfVertex ==
    /\ pc = "fvf_vert"
    /\ \E name \in FreeNames(gl) \cup {0}, o \in Outcomes :
          LET r == ShaderFromSource(gl, calls, "Vertex", vert, name, o.ok, o.lg)
          IN  /\ name = 0 => o.ok
              /\ gl' = r.gl
              /\ calls' = r.calls
              /\ IF r.res.ok
                 THEN v' = r.res.h /\ p' = p /\ result' = result /\ pc' = "fvf_frag"
                 ELSE v' = v /\ p' = NoProg /\ result' = Err(VertexErr(r.res.msg))
                      /\ pc' = "returned"
    /\ UNCHANGED <<vert, frag, f, got, hashVars, frameVars>>

\* from_vert_frag, lines 261-262
FvfFragment ==
    /\ pc = "fvf_frag"
    /\ \E name \in FreeNames(gl) \cup {0}, o \in Outcomes :
          LET r == ShaderFromSource(gl, calls, "Fragment", frag, name, o.ok, o.lg)
          IN  /\ name = 0 => o.ok
              /\ gl' = r.gl
              /\ calls' = r.calls
              /\ IF r.res.ok
                 THEN f' = r.res.h /\ p' = p /\ v' = v /\ result' = result
                      /\ pc' = "fvf_link"
                 ELSE f' = f /\ p' = NoProg /\ v' = 0
                      /\ result' = Err(FragmentErr(r.res.msg)) /\ pc' = "returned"
    /\ UNCHANGED <<vert, frag, got, hashVars, frameVars>>

\* from_vert_frag, lines 264-285
FvfLink ==
    /\ pc = "fvf_link"
    /\ \E o \in Outcomes :
          LET r == AttachAndLink(gl, calls, p, v, f, vert, frag, o.ok, o.lg)
          IN  /\ gl' = r.gl
              /\ calls' = r.calls
              /\ p' = r.p
              /\ result' = r.res
    /\ v' = 0 /\ f' = 0
    /\ pc' = "returned"
    /\ UNCHANGED <<vert, frag, got, hashVars, frameVars>>

\* the caller allocates a program itself
ManNew ==
    /\ pc = "start"
    /\ \E name \in FreeNames(gl) \cup {0} :
          LET r == ProgramNew(gl, calls, name)
          IN  /\ gl' = r.gl
              /\ calls' = r.calls
              /\ p' = r.p
              /\ pc' = IF name = 0 THEN "man_none" ELSE "man_src"
    /\ UNCHANGED <<vert, frag, v, f, result, got, hashVars, frameVars>>

\* ... compiles a shader from vert itself
ManCompile ==
    /\ pc = "man_src"
    /\ \E name \in FreeNames(gl) \cup {0}, o \in Outcomes :
          LET r == ShaderFromSource(gl, calls, "Vertex", vert, name, o.ok, o.lg)
          IN  /\ name = 0 => o.ok
              /\ gl' = r.gl
              /\ calls' = r.calls
              /\ v' = r.res.h
              /\ pc' = IF r.res.ok THEN "man_attach" ELSE "man_none"
    /\ UNCHANGED <<vert, frag, p, f, result, got, hashVars, frameVars>>

\* ... and attaches it with attach_shader
ManAttach ==
    /\ pc = "man_attach"
    /\ LET r == AttachShader(gl, calls, p, v)
       IN  gl' = r.gl /\ calls' = r.calls
    /\ pc' = "man_done"
    /\ UNCHANGED <<vert, frag, p, v, f, result, got, hashVars, frameVars>>

\* the caller holds a program
HoldsProgram == (pc = "returned" /\ result.ok) \/ pc = "man_done"

\* get_shader on the program held
GetShader ==
    /\ HoldsProgram
    /\ \E text \in SourceTexts : got' = get_shader(p, text)
    /\ UNCHANGED <<pc, vert, frag, gl, calls, p, v, f, result, hashVars, frameVars>>

NextBuild ==
    \/ FvfNew \/ FvfVertex \/ FvfFragment \/ FvfLink
    \/ ManNew \/ ManCompile \/ ManAttach
    \/ GetShader

SpecBuild == InitBuild /\ [][NextBuild]_vars

(***************************************************************************)
(* SpecHash                                                                *)
(***************************************************************************)
InitHash ==
    /\ hin \in [p : PrefixTexts, s1 : SuffixTexts, s2 : SuffixTexts]
    /\ hout = [full |-> NoVal, st1 |-> NoVal, st2 |-> NoVal]
    /\ BuildOff /\ FrameOff

\* hash(P)
ApplyHash ==
    /\ hout.full = NoVal
    /\ hout' = [hout EXCEPT !.full = hash(hin.p)]
    /\ UNCHANGED <<hin, buildVars, frameVars>>

\* hashShader(P + "#" + S1)
ApplyHashShader1 ==
    /\ hout.st1 = NoVal
    /\ hout' = [hout EXCEPT !.st1 = hashShader(hin.p \o <<StopUnit>> \o hin.s1)]
    /\ UNCHANGED <<hin, buildVars, frameVars>>

\* hashShader(P + "#" + S2)
ApplyHashShader2 ==
    /\ hout.st2 = NoVal
    /\ hout' = [hout EXCEPT !.st2 = hashShader(hin.p \o <<StopUnit>> \o hin.s2)]
    /\ UNCHANGED <<hin, buildVars, frameVars>>

NextHash == ApplyHash \/ ApplyHashShader1 \/ ApplyHashShader2

SpecHash == InitHash /\ [][NextHash]_vars

(***************************************************************************)
(* The device's buffers, vertex arrays and raster state (the part of the   *)
(* graphics API that main.rs drives through lib.rs).  Buffer names and     *)
(* vertex array names are name spaces of their own.                        *)
(***************************************************************************)
MaxObj == 2

\* names of programs, vertex arrays and buffers the device hands to main
ObjNames == 1..MaxObj

NoAttr == [enabled |-> FALSE, buf |-> 0, size |-> 0, stride |-> 0]

DevInit ==
    [vaos        |-> {},                        \* vertex array names handed out
     bufs        |-> {},                        \* buffer names handed out
     vaoBound    |-> 0,                         \* the bound vertex array
     arrayBuf    |-> 0,                         \* the GL_ARRAY_BUFFER binding
     elem        |-> [n \in ObjNames |-> 0],       \* each array's element binding
     attr0       |-> [n \in ObjNames |-> NoAttr],  \* each array's attribute 0
     store       |-> [n \in ObjNames |-> <<>>],    \* each buffer's bytes
     polygonMode |-> "Fill",
     program     |-> 0,                         \* the program in use
     clearColor  |-> <<0, 0, 0, 0>>]            \* in tenths

\* VertexArray::bind
BindVertexArray(d, n) == [d EXCEPT !.vaoBound = n]

\* VertexBuffer::bind: the element binding belongs to the bound vertex array
BindBuffer(d, ty, n) ==
    IF ty = "Array" THEN [d EXCEPT !.arrayBuf = n]
    ELSE IF d.vaoBound # 0 THEN [d EXCEPT !.elem[d.vaoBound] = n]
    ELSE d

BoundBuffer(d, ty) ==
    IF ty = "Array" THEN d.arrayBuf
    ELSE IF d.vaoBound # 0 THEN d.elem[d.vaoBound]
    ELSE 0

\* buffer_data: a new store for the buffer bound to ty
buffer_data(d, ty, data) ==
    LET b == BoundBuffer(d, ty)
    IN  IF b = 0 THEN d ELSE [d EXCEPT !.store[b] = data]

\* buffer_sub_data: bytes [offset, offset + len) of the bound buffer's store;
\* a range past the end of the store is a device error that changes nothing
buffer_sub_data(d, ty, data, offset) ==
    LET b == BoundBuffer(d, ty)
    IN  IF b = 0 \/ offset + Len(data) > Len(d.store[b])
        THEN d
        ELSE [d EXCEPT !.store[b] =
                 [i \in 1..Len(@) |->
                     IF i > offset /\ i <= offset + Len(data) THEN data[i - offset] ELSE @[i]]]

\* polygon_mode
polygon_mode(d, mode) == [d EXCEPT !.polygonMode = mode]

\* ShaderProgram::use_program
use_program(d, prog) == [d EXCEPT !.program = prog]

\* clear_color
clear_color(d, r, g, b, a) == [d EXCEPT !.clearColor = <<r, g, b, a>>]

(***************************************************************************)
(* main.rs.  A coordinate is kept in halves (1 is 0.5, -1 is -0.5, 2 is    *)
(* 1.0): every value the program computes is a multiple of 0.5, exact in   *)
(* f32.  k is kept as it is (-1 or 1).                                     *)
(***************************************************************************)
\* size_of::<Vertex>(): three f32
SizeOfVertex == 12

\* the bytes of an f32 (little-endian) for the coordinates that occur
F32Bytes(x) ==
    CASE x = 0  -> <<0, 0, 0, 0>>        \* 0.0   0x00000000
      [] x = 1  -> <<0, 0, 0, 63>>       \* 0.5   0x3F000000
      [] x = -1 -> <<0, 0, 0, 191>>      \* -0.5  0xBF000000
      [] x = 2  -> <<0, 0, 128, 63>>     \* 1.0   0x3F800000

\* the bytes of a u32 (little-endian)
U32Bytes(n) == <<n % 256, (n \div 256) % 256, (n \div 65536) % 256, n \div 16777216>>

RECURSIVE Flatten(_)
Flatten(ss) == IF ss = <<>> THEN <<>> ELSE Head(ss) \o Flatten(Tail(ss))

\* bytemuck::cast_slice of a slice of Vertex
CastVertices(verts) ==
    Flatten([i \in 1..Len(verts) |->
                F32Bytes(verts[i][1]) \o F32Bytes(verts[i][2]) \o F32Bytes(verts[i][3])])

\* bytemuck::cast_slice of a slice of TriIndexes
CastIndexes(inds) ==
    Flatten([i \in 1..Len(inds) |->
                U32Bytes(inds[i][1]) \o U32Bytes(inds[i][2]) \o U32Bytes(inds[i][3])])

\* the byte offset of a vertex, kept wrong: one f32 per vertex
VertexOffsetOneFloat(vertex_num) == vertex_num * 4

\* update_single_vbo's offset
VertexOffset(vertex_num) == vertex_num * SizeOfVertex

\* update_single_vbo
update_single_vbo(d, vertex_num, vao, vbo, vtx) ==
    LET offset == VertexOffset(vertex_num)
        d1 == BindVertexArray(d, vao)
        d2 == BindBuffer(d1, "Array", vbo)
    IN  buffer_sub_data(d2, "Array", CastVertices(<<vtx>>), offset)

\* create_vbo, with name what glGenBuffers returned (name # 0)
create_vbo(d, vao, verts, name) ==
    LET d1 == BindVertexArray(d, vao)
        d2 == [d1 EXCEPT !.bufs = @ \cup {name}]
        d3 == BindBuffer(d2, "Array", name)
        d4 == buffer_data(d3, "Array", CastVertices(verts))
    IN  IF d4.vaoBound = 0 THEN d4
        ELSE [d4 EXCEPT !.attr0[d4.vaoBound] =
                 [enabled |-> TRUE, buf |-> d4.arrayBuf, size |-> 3, stride |-> SizeOfVertex]]

\* create_ebo with the index buffer bound to the array target
create_eboArrayTarget(d, vao, inds, name) ==
    LET d1 == BindVertexArray(d, vao)
        d2 == [d1 EXCEPT !.bufs = @ \cup {name}]
        d3 == BindBuffer(d2, "Array", name)
    IN  buffer_data(d3, "Array", CastIndexes(inds))

\* create_ebo, with name what glGenBuffers returned (name # 0)
create_ebo(d, vao, inds, name) ==
    LET d1 == BindVertexArray(d, vao)
        d2 == [d1 EXCEPT !.bufs = @ \cup {name}]
        d3 == BindBuffer(d2, "ElementArray", name)
    IN  buffer_data(d3, "ElementArray", CastIndexes(inds))

\* the vertices and the indexes main pushes
InitialVerts == << <<1, 1, 0>>, <<1, -1, 0>>, <<-1, -1, 0>>, <<-1, 1, 0>> >>
InitialIndexes == << <<0, 1, 3>>, <<1, 2, 3>> >>

\* 0.5 - k/2.0 with the sign slipped
ToggleXPlus(k) == 1 + k

\* 0.5 - k/2.0, in halves
ToggleX(k) == 1 - k

Keys == {"SPACE", "L", "F", "P", "ESCAPE", "A"}

\* the Keyboard arm of the match, with the key that only quits on release
KeyboardEscapeOnRelease(a, d, is_pressed, keycode) ==
    IF is_pressed /\ keycode = "SPACE" THEN
        LET vv == [a.vert_vec EXCEPT ![3] = <<ToggleX(a.k), 1, 0>>]
        IN  [app |-> [a EXCEPT !.vert_vec = vv, !.k = a.k * (-1)],
             dev |-> update_single_vbo(d, 2, a.vao, a.vbo, vv[3]),
             quit |-> FALSE]
    ELSE IF is_pressed /\ keycode = "L" THEN
        [app |-> a, dev |-> polygon_mode(d, "Line"), quit |-> FALSE]
    ELSE IF is_pressed /\ keycode = "F" THEN
        [app |-> a, dev |-> polygon_mode(d, "Fill"), quit |-> FALSE]
    ELSE IF is_pressed /\ keycode = "P" THEN
        [app |-> a, dev |-> polygon_mode(d, "Point"), quit |-> FALSE]
    ELSE IF ~is_pressed /\ keycode = "ESCAPE" THEN
        [app |-> a, dev |-> d, quit |-> TRUE]
    ELSE [app |-> a, dev |-> d, quit |-> FALSE]

\* the Keyboard arm of the match, with the modes of L and P exchanged
KeyboardSwappedModes(a, d, is_pressed, keycode) ==
    IF is_pressed /\ keycode = "SPACE" THEN
        LET vv == [a.vert_vec EXCEPT ![3] = <<ToggleX(a.k), 1, 0>>]
        IN  [app |-> [a EXCEPT !.vert_vec = vv, !.k = a.k * (-1)],
             dev |-> update_single_vbo(d, 2, a.vao, a.vbo, vv[3]),
             quit |-> FALSE]
    ELSE IF is_pressed /\ keycode = "L" THEN
        [app |-> a, dev |-> polygon_mode(d, "Point"), quit |-> FALSE]
    ELSE IF is_pressed /\ keycode = "F" THEN
        [app |-> a, dev |-> polygon_mode(d, "Fill"), quit |-> FALSE]
    ELSE IF is_pressed /\ keycode = "P" THEN
        [app |-> a, dev |-> polygon_mode(d, "Line"), quit |-> FALSE]
    ELSE IF is_pressed /\ keycode = "ESCAPE" THEN
        [app |-> a, dev |-> d, quit |-> TRUE]
    ELSE [app |-> a, dev |-> d, quit |-> FALSE]

\* the Keyboard arm of the match (main.rs lines 104-118): the new locals,
\* the new device state, and whether the arm breaks out of 'main_loop
Keyboard(a, d, is_pressed, keycode) ==
    IF is_pressed /\ keycode = "SPACE" THEN
        LET vv == [a.vert_vec EXCEPT ![3] = <<ToggleX(a.k), 1, 0>>]
        IN  [app |-> [a EXCEPT !.vert_vec = vv, !.k = a.k * (-1)],
             dev |-> update_single_vbo(d, 2, a.vao, a.vbo, vv[3]),
             quit |-> FALSE]
    ELSE IF is_pressed /\ keycode = "L" THEN
        [app |-> a, dev |-> polygon_mode(d, "Line"), quit |-> FALSE]
    ELSE IF is_pressed /\ keycode = "F" THEN
        [app |-> a, dev |-> polygon_mode(d, "Fill"), quit |-> FALSE]
    ELSE IF is_pressed /\ keycode = "P" THEN
        [app |-> a, dev |-> polygon_mode(d, "Point"), quit |-> FALSE]
    ELSE IF is_pressed /\ keycode = "ESCAPE" THEN
        [app |-> a, dev |-> d, quit |-> TRUE]
    ELSE [app |-> a, dev |-> d, quit |-> FALSE]

(***************************************************************************)
(* SpecFrame: main().  fpc is the driver's state; app.step counts the      *)
(* steps of the initialisation, app.at is the position inside one turn of  *)
(* 'main_loop ("poll": draining events, "draw": about to render).          *)
(***************************************************************************)
MaxEvents == 3
MaxFrames == 2

NoEvent == [kind |-> "none", key |-> "-", pressed |-> FALSE]

NoDraw == [mode |-> "-", key |-> "-", program |-> 0, vao |-> 0, elem |-> 0,
           array |-> 0, count |-> 0, vbytes |-> <<>>, ibytes |-> <<>>]

AppInit ==
    [step |-> 0, at |-> "poll", shader_program |-> 0, vao |-> 0, vbo |-> 0, ebo |-> 0,
     vert_vec |-> <<>>, indicies_vec |-> <<>>, k |-> 0]

HistInit ==
    [events      |-> 0,         \* events handled
     presses     |-> 0,         \* key-down events of the toggle key among them
     frames      |-> 0,         \* frames rendered (clear, draw, swap)
     lastModeKey |-> "none",    \* the last mode key pressed
     lastEvent   |-> NoEvent,   \* the last event handled
     lastDraw    |-> NoDraw]    \* the device state the last draw ran with

InitFrame ==
    /\ fpc = "Initializing"
    /\ dev = DevInit
    /\ app = AppInit
    /\ hist = HistInit
    /\ HashOff /\ BuildOff

\* main.rs lines 76-81: clear colour, from_vert_frag(..).unwrap() (name is the
\* program it built, 0 stands for any Err, on which unwrap panics), use_program
InitProgram ==
    /\ fpc = "Initializing" /\ app.step = 0
    /\ \E name \in ObjNames \cup {0} :
          LET d1 == clear_color(dev, 2, 3, 3, 10)
          IN  IF name = 0
              THEN dev' = d1 /\ app' = app /\ fpc' = "Aborted"
              ELSE /\ dev' = use_program(d1, name)
                   /\ app' = [app EXCEPT !.shader_program = name, !.step = 1]
                   /\ fpc' = fpc
    /\ UNCHANGED <<hist, hashVars, buildVars>>

\* main.rs line 83: VertexArray::new().expect(..)
InitVao ==
    /\ fpc = "Initializing" /\ app.step = 1
    /\ \E name \in (ObjNames \ dev.vaos) \cup {0} :
          IF name = 0
          THEN dev' = dev /\ app' = app /\ fpc' = "Aborted"
          ELSE /\ dev' = [dev EXCEPT !.vaos = @ \cup {name}]
               /\ app' = [app EXCEPT !.vao = name, !.step = 2]
               /\ fpc' = fpc
    /\ UNCHANGED <<hist, hashVars, buildVars>>

\* main.rs lines 85-93: the two lists and create_vbo
CreateVbo ==
    /\ fpc = "Initializing" /\ app.step = 2
    /\ \E name \in (ObjNames \ dev.bufs) \cup {0} :
          LET a1 == [app EXCEPT !.vert_vec = InitialVerts, !.indicies_vec = InitialIndexes]
          IN  IF name = 0
              THEN dev' = BindVertexArray(dev, app.vao) /\ app' = a1 /\ fpc' = "Aborted"
              ELSE /\ dev' = create_vbo(dev, app.vao, a1.vert_vec, name)
                   /\ app' = [a1 EXCEPT !.vbo = name, !.step = 3]
                   /\ fpc' = fpc
    /\ UNCHANGED <<hist, hashVars, buildVars>>

\* main.rs line 94: create_ebo
CreateEbo ==
    /\ fpc = "Initializing" /\ app.step = 3
    /\ \E name \in (ObjNames \ dev.bufs) \cup {0} :
          IF name = 0
          THEN dev' = BindVertexArray(dev, app.vao) /\ app' = app /\ fpc' = "Aborted"
          ELSE /\ dev' = create_ebo(dev, app.vao, app.indicies_vec, name)
               /\ app' = [app EXCEPT !.ebo = name, !.step = 4]
               /\ fpc' = fpc
    /\ UNCHANGED <<hist, hashVars, buildVars>>

\* main.rs lines 95-98: k, the initial polygon mode, into the loop
EnterLoop ==
    /\ fpc = "Initializing" /\ app.step = 4
    /\ dev' = polygon_mode(dev, "Fill")
    /\ app' = [app EXCEPT !.k = -1, !.step = 5]
    /\ fpc' = "Running"
    /\ UNCHANGED <<hist, hashVars, buildVars>>

Polling == fpc = "Running" /\ app.at = "poll" /\ hist.events < MaxEvents

\* Event::Quit(_) => break 'main_loop
HandleQuit ==
    /\ Polling
    /\ fpc' = "ShuttingDown"
    /\ hist' = [hist EXCEPT !.events = @ + 1,
                            !.lastEvent = [kind |-> "Quit", key |-> "-", pressed |-> FALSE]]
    /\ UNCHANGED <<dev, app, hashVars, buildVars>>

\* Event::Keyboard(e) => ..
HandleKeyboard ==
    /\ Polling
    /\ \E is_pressed \in BOOLEAN, keycode \in Keys :
          LET r == Keyboard(app, dev, is_pressed, keycode)
          IN  /\ app' = r.app
              /\ dev' = r.dev
              /\ fpc' = IF r.quit THEN "ShuttingDown" ELSE fpc
              /\ hist' = [hist EXCEPT
                    !.events = @ + 1,
                    !.presses = IF is_pressed /\ keycode = "SPACE" THEN @ + 1 ELSE @,
                    !.lastModeKey = IF is_pressed /\ keycode \in {"L", "F", "P"}
                                    THEN keycode ELSE @,
                    !.lastEvent = [kind |-> "Keyboard", key |-> keycode,
                                   pressed |-> is_pressed]]
    /\ UNCHANGED <<hashVars, buildVars>>

\* _ => ()
HandleOther ==
    /\ Polling
    /\ hist' = [hist EXCEPT !.events = @ + 1,
                            !.lastEvent = [kind |-> "Other", key |-> "-", pressed |-> FALSE]]
    /\ UNCHANGED <<fpc, dev, app, hashVars, buildVars>>

\* poll_events() has nothing (more) to give: the while let loop ends
DrainDone ==
    /\ fpc = "Running" /\ app.at = "poll" /\ hist.frames < MaxFrames
    /\ app' = [app EXCEPT !.at = "draw"]
    /\ UNCHANGED <<fpc, dev, hist, hashVars, buildVars>>

\* main.rs lines 126-136: glClear, glDrawElements, swap_window
RenderFrame ==
    /\ fpc = "Running" /\ app.at = "draw"
    /\ hist' = [hist EXCEPT
          !.frames = @ + 1,
          !.lastDraw = [mode    |-> dev.polygonMode,
                        key     |-> hist.lastModeKey,
                        program |-> dev.program,
                        vao     |-> dev.vaoBound,
                        elem    |-> BoundBuffer(dev, "ElementArray"),
                        array   |-> dev.arrayBuf,
                        count   |-> Len(app.indicies_vec) * 3,
                        vbytes  |-> IF dev.arrayBuf = 0 THEN <<>> ELSE dev.store[dev.arrayBuf],
                        ibytes  |-> IF BoundBuffer(dev, "ElementArray") = 0 THEN <<>>
                                    ELSE dev.store[BoundBuffer(dev, "ElementArray")]]]
    /\ app' = [app EXCEPT !.at = "poll"]
    /\ UNCHANGED <<fpc, dev, hashVars, buildVars>>

NextFrame ==
    \/ InitProgram \/ InitVao \/ CreateVbo \/ CreateEbo \/ EnterLoop
    \/ HandleQuit \/ HandleKeyboard \/ HandleOther
    \/ DrainDone \/ RenderFrame

SpecFrame == InitFrame /\ [][NextFrame]_vars

(***************************************************************************)
(* Properties of the build pipeline (SpecBuild)                            *)
(***************************************************************************)
Returned == pc = "returned"

CallIdx == 1..Len(calls)

\* the stage of from_vert_frag a device call opens or carries on (0: a
\* disposal, which both a failing stage and the last stage issue)
StageIdx(c) ==
    CASE c.fn = "glCreateProgram" -> 1
      [] c.fn \in {"glCreateShader", "glShaderSource", "glCompileShader",
                   "glGetShaderiv(GL_COMPILE_STATUS)"} ->
             (IF c.ty = "Vertex" THEN 2 ELSE 3)
      [] c.fn = "glAttachShader" -> 4
      [] c.fn \in {"glLinkProgram", "glGetProgramiv(GL_LINK_STATUS)"} -> 5
      [] OTHER -> 0

\* which stage the device made fail, read off the device's answers
ProgramStageFailed ==
    \E i \in CallIdx : calls[i].fn = "glCreateProgram" /\ calls[i].ret = 0

ShaderStageFailed(ty) ==
    \E i \in CallIdx :
        /\ calls[i].ty = ty
        /\ calls[i].fn \in {"glCreateShader", "glGetShaderiv(GL_COMPILE_STATUS)"}
        /\ calls[i].ret = 0

LinkStageFailed ==
    \E i \in CallIdx : calls[i].fn = "glGetProgramiv(GL_LINK_STATUS)" /\ calls[i].ret = 0

NoCallOfStage(n) == \A i \in CallIdx : StageIdx(calls[i]) # n

\* C1: from_vert_frag is a strict ordered pipeline (create program, vertex
\* shader, fragment shader, attach, link): the device calls are issued in
\* stage order; when a stage fails no call of a later stage has been issued
\* and the error returned names the failing stage.  In particular a vertex
\* stage that fails yields Err with a message starting with "Vertex Compile
\* Error: " and no fragment shader is ever created or compiled.
C1_ShortCircuit ==
    /\ \A i, j \in CallIdx :
          i < j /\ StageIdx(calls[i]) # 0 /\ StageIdx(calls[j]) # 0
             => StageIdx(calls[i]) <= StageIdx(calls[j])
    /\ Returned =>
          /\ result.ok <=> ~(ProgramStageFailed \/ ShaderStageFailed("Vertex")
                              \/ ShaderStageFailed("Fragment") \/ LinkStageFailed)
          /\ ProgramStageFailed =>
                /\ result.msg = <<"Could not allocate a program">>
                /\ \A n \in 2..5 : NoCallOfStage(n)
          /\ ShaderStageFailed("Vertex") =>
                /\ Head(result.msg) = "Vertex Compile Error: "
                /\ \A n \in 3..5 : NoCallOfStage(n)
                /\ \A i \in CallIdx : calls[i].ty # "Fragment"
          /\ ShaderStageFailed("Fragment") =>
                /\ Head(result.msg) = "Fragment Compile Error: "
                /\ \A n \in 4..5 : NoCallOfStage(n)
          /\ LinkStageFailed =>
                Head(result.msg) = "Program Link Error: "

\* C1's case: the vertex source failed to compile, with a log, and the call
\* returned
C1_Witness ==
    /\ Returned
    /\ \E i \in CallIdx : /\ calls[i].fn = "glGetShaderiv(GL_COMPILE_STATUS)"
                          /\ calls[i].ty = "Vertex" /\ calls[i].ret = 0
    /\ Len(result.msg) > 1

\* C2: whenever from_vert_frag returns an error, every program object and
\* every shader object it created during the call has had glDeleteProgram /
\* glDeleteShader called on it before the error is returned.
C2_FailedBuildDisposesAll ==
    Returned /\ ~result.ok =>
        \A i \in CallIdx :
            calls[i].fn \in {"glCreateProgram", "glCreateShader"} /\ calls[i].ret # 0
               => \E j \in CallIdx :
                     /\ j > i
                     /\ calls[j].fn = (IF calls[i].fn = "glCreateProgram"
                                       THEN "glDeleteProgram" ELSE "glDeleteShader")
                     /\ calls[j].name = calls[i].ret

\* the source text a live shader object was compiled from
SourceOf(s) == IF gl.kind[s] = "Vertex" THEN vert ELSE frag

\* the shaders attached to the program held
Attached == {s \in Names : <<p.h, s>> \in gl.att}

\* C3: for every program P and every shader S compiled from text T, after
\* P.attach_shader(S) the lookup P.get_shader(T) returns Some(handle of S).
C3_AttachThenLookup ==
    HoldsProgram /\ got.kind # "-" =>
        \A s \in Attached :
            got.q = SourceOf(s) => got.kind = "Some" /\ got.h = U32(s)

\* C4: on a program built by from_vert_frag(V, F), get_shader(X) returns None
\* for every X whose fingerprint is neither V's nor F's; whenever it returns
\* Some(h), h is the handle of an attached shader stored right after that
\* fingerprint's own entry (never a fingerprint); and it never indexes past
\* the end of the list.
C4_LookupSound ==
    Returned /\ result.ok /\ got.kind # "-" =>
        /\ got.kind # "Panic"
        /\ hash(got.q) \notin {hash(vert), hash(frag)} => got.kind = "None"
        /\ got.kind = "Some" =>
              \E s \in Attached, n \in 0..((Len(p.l) \div 2) - 1) :
                  /\ p.l[2 * n + 1] = hash(got.q)
                  /\ p.l[2 * n + 2] = U32(s)
                  /\ got.h = U32(s)

\* C5: when both shaders compile and the link fails, the error returned is
\* "Program Link Error: " followed by the log the device recorded for that
\* program, obtained through the program's own queries.
C5_LinkErrorCarriesLog ==
    Returned /\ LinkStageFailed =>
        /\ result.msg = <<"Program Link Error: ">> \o gl.log[calls[1].ret]
        /\ \A i \in CallIdx : calls[i].ty = "Program" =>
              calls[i].fn \notin {"glGetShaderiv(GL_INFO_LOG_LENGTH)", "glGetShaderInfoLog"}

(***************************************************************************)
(* Properties of the fingerprints (SpecHash)                               *)
(***************************************************************************)
\* C6: for every text P without '#' and all suffixes S1, S2:
\* hashShader(P + "#" + S1) = hashShader(P + "#" + S2) = hash(P); and for
\* the texts of the example, hashShader("abc#xyz") = hashShader("abc#qqq") =
\* hash("abc") = 807794786 (12325 * 65536 + 63586).
C6_StableTruncation ==
    /\ hout.full # NoVal /\ hout.st1 # NoVal => hout.st1 = hout.full
    /\ hout.full # NoVal /\ hout.st2 # NoVal => hout.st2 = hout.full
    /\ hout.st1 # NoVal /\ hout.st2 # NoVal => hout.st1 = hout.st2
    /\ hashShader(<<97, 98, 99, 35, 120, 121, 122>>) = hash(<<97, 98, 99>>)
    /\ hashShader(<<97, 98, 99, 35, 113, 113, 113>>) = hash(<<97, 98, 99>>)
    /\ hash(<<97, 98, 99>>) = <<12325, 63586>>

\* C6's case: all three fingerprints computed, of a prefix long enough to
\* fill both halves and of two different suffixes
C6_Witness ==
    /\ hout.full # NoVal /\ hout.st1 # NoVal /\ hout.st2 # NoVal
    /\ Len(hin.p) >= 2 /\ hout.full[1] > 0
    /\ hin.s1 # hin.s2 /\ hin.s1 # <<>> /\ hin.s2 # <<>>

(***************************************************************************)
(* Properties of the frame loop (SpecFrame)                                *)
(***************************************************************************)
\* an event handled in this step was a key-down of the toggle key
TogglePressStep == hist'.presses = hist.presses + 1

\* C7: successive key-down events of the toggle key (Space) make vertex 2
\* alternate between two positions: after the n-th press it is
\* (1.0, 0.5, 0.0) for odd n and (0.0, 0.5, 0.0) for even n; key releases
\* and all other events leave vertex 2 as it is.
C7_ToggleAlternates ==
    [][/\ TogglePressStep =>
             app'.vert_vec[3] = (IF hist'.presses % 2 = 1 THEN <<2, 1, 0>> ELSE <<0, 1, 0>>)
       /\ fpc = "Running" /\ ~TogglePressStep =>
             app'.vert_vec[3] = app.vert_vec[3]]_vars

\* C7's case: the toggle key has been pressed twice and vertex 2 is back at
\* (0.0, 0.5, 0.0)
C7_Witness ==
    /\ hist.presses = 2
    /\ app.vert_vec[3] = <<0, 1, 0>>
    /\ app.k = -1

\* the bytes of the vertex buffer and of the index buffer right after the
\* full uploads of the initialisation
InitialVertexBytes == CastVertices(InitialVerts)
InitialIndexBytes == CastIndexes(InitialIndexes)

\* C8: the vertex buffer holds 4 vertices (48 bytes); a toggle-key press
\* uploads one replacement vertex at byte offset 2 * 12 = 24 and changes
\* only bytes [24, 36) of the vertex buffer: vertices 0, 1 and 3, the
\* buffer's size and the index buffer's bytes stay as they were.
C8_PartialUploadTouchesOnlyVertex2 ==
    [][TogglePressStep =>
          LET old == dev.store[app.vbo]
              new == dev'.store[app.vbo]
              sent == CastVertices(<<app'.vert_vec[3]>>)
          IN  /\ Len(old) = 48 /\ Len(new) = 48
              /\ \A i \in 1..48 :
                    new[i] = (IF i \in 25..36 THEN sent[i - 24] ELSE old[i])
              /\ SubSeq(new, 1, 24) = SubSeq(InitialVertexBytes, 1, 24)
              /\ SubSeq(new, 37, 48) = SubSeq(InitialVertexBytes, 37, 48)
              /\ dev'.store[app.ebo] = dev.store[app.ebo]
              /\ dev'.store[app.ebo] = InitialIndexBytes]_vars

\* C8's case: after a press the device holds the replacement vertex
\* (1.0, 0.5, 0.0) in bytes [24, 36) and the uploaded bytes everywhere else
C8_Witness ==
    /\ hist.presses >= 1
    /\ SubSeq(dev.store[app.vbo], 25, 36) = CastVertices(<< <<2, 1, 0>> >>)
    /\ SubSeq(dev.store[app.vbo], 25, 36) # SubSeq(InitialVertexBytes, 25, 36)
    /\ SubSeq(dev.store[app.vbo], 1, 24) = SubSeq(InitialVertexBytes, 1, 24)
    /\ SubSeq(dev.store[app.vbo], 37, 48) = SubSeq(InitialVertexBytes, 37, 48)

\* a quit request: the window's Quit event or a key-down of Escape
IsQuitRequest(e) ==
    e.kind = "Quit" \/ (e.kind = "Keyboard" /\ e.pressed /\ e.key = "ESCAPE")

\* C9: the driver moves Initializing -> Running -> ShuttingDown and never
\* back; a quit request handled in Running puts it in ShuttingDown, and in
\* ShuttingDown no event is handled, no vertex or polygon mode changes and
\* nothing is cleared, drawn or swapped.
C9_QuitIsFinal ==
    [][/\ fpc = "Initializing" => fpc' \in {"Initializing", "Running", "Aborted"}
       /\ fpc = "Running" => fpc' \in {"Running", "ShuttingDown"}
       /\ fpc = "Running" /\ hist'.events = hist.events + 1 =>
             (fpc' = "ShuttingDown" <=> IsQuitRequest(hist'.lastEvent))
       /\ fpc = "ShuttingDown" => UNCHANGED <<fpc, dev, app, hist>>]_vars

\* C9's case: an Escape key-down was handled after a frame was drawn, and
\* the driver is shutting down
C9_Witness ==
    /\ fpc = "ShuttingDown"
    /\ hist.lastEvent = [kind |-> "Keyboard", key |-> "ESCAPE", pressed |-> TRUE]
    /\ hist.frames >= 1

\* the mode each mode key stands for; Fill before any mode key
ModeOfKey(key) ==
    CASE key = "L" -> "Line"
      [] key = "F" -> "Fill"
      [] key = "P" -> "Point"
      [] key = "none" -> "Fill"

\* C10: at every indexed draw the device's polygon mode is the mode of the
\* last mode key pressed before it (L: Line, F: Fill, P: Point), Fill if
\* none was pressed; in the loop the device's mode always is that mode, so
\* no other event changes it.
C10_DrawUsesLastMode ==
    /\ hist.frames > 0 => hist.lastDraw.mode = ModeOfKey(hist.lastDraw.key)
    /\ fpc \in {"Running", "ShuttingDown"} => dev.polygonMode = ModeOfKey(hist.lastModeKey)

\* C10's case: a frame drawn in Point mode after P, then the toggle key
\* released, and the mode still Point
C10_Witness ==
    /\ hist.frames > 0
    /\ hist.lastDraw.mode = "Point" /\ hist.lastDraw.key = "P"
    /\ hist.lastEvent = [kind |-> "Keyboard", key |-> "SPACE", pressed |-> FALSE]
    /\ dev.polygonMode = "Point"

\* the device state an indexed draw reads, as main set it up
DrawStateReady ==
    /\ app.shader_program # 0 /\ dev.program = app.shader_program
    /\ app.vao # 0 /\ dev.vaoBound = app.vao
    /\ app.ebo # 0 /\ dev.elem[app.vao] = app.ebo
    /\ app.vbo # 0 /\ dev.arrayBuf = app.vbo
    /\ app.vbo # app.ebo
    /\ Len(app.vert_vec) = 4
    /\ dev.store[app.vbo] = CastVertices(app.vert_vec)
    /\ dev.store[app.ebo] = CastIndexes(<< <<0, 1, 3>>, <<1, 2, 3>> >>)

\* C11: at every indexed draw of the frame loop, whatever events came
\* before: the built program is the program in use, the one vertex array is
\* bound with the index buffer as its element binding, the array target is
\* bound to the vertex buffer, the vertex buffer's bytes are those of the
\* vertex list in memory (all 4 vertices), and the index buffer holds
\* [0,1,3],[1,2,3].  Stated of the state a draw is issued in, and of what
\* the last draw recorded.
C11_DrawStateConsistent ==
    /\ fpc = "Running" /\ app.at = "draw" => DrawStateReady
    /\ hist.frames > 0 =>
          /\ hist.lastDraw.program = app.shader_program
          /\ hist.lastDraw.vao = app.vao
          /\ hist.lastDraw.elem = app.ebo
          /\ hist.lastDraw.array = app.vbo
          /\ hist.lastDraw.count = 6
          /\ Len(hist.lastDraw.vbytes) = 48
          /\ hist.lastDraw.ibytes = CastIndexes(<< <<0, 1, 3>>, <<1, 2, 3>> >>)

\* C11's case: a draw is about to be issued after a frame was drawn, the
\* toggle key was pressed since, and a mode key too
C11_Witness ==
    /\ fpc = "Running" /\ app.at = "draw"
    /\ hist.frames >= 1
    /\ hist.presses >= 1
    /\ hist.lastModeKey = "L"
    /\ hist.lastDraw.vbytes # dev.store[app.vbo]

====
